---- MODULE Spec2Model ----
(***************************************************************************)
(* Model of the assessment status page (AssessmentPage): the polling      *)
(* client that repeatedly fetches /assessment/{uploadId}, decides when to  *)
(* stop, and normalizes the per-side results.                              *)
(*                                                                         *)
(* The component is a React function component.  Its state hooks and refs  *)
(* are the variables below.  A handler (timer callback, promise            *)
(* continuation, effect) runs to completion.  A promise continuation only  *)
(* queues its state updates and returns to the event loop; React renders   *)
(* in a later task, and another continuation or a timer callback can run   *)
(* before it.  The state variables hold the latest value set (what the     *)
(* next render shows); refs are written at once.  A render (Rerender, or   *)
(* the one a route change causes) reads the state and puts the result on   *)
(* screen; the effect whose dependencies that render changed is cleaned up *)
(* and run again in a later flush (RunEffects), and until then the         *)
(* interval of the render before is still armed.  The handlers read refs   *)
(* and the values their closure captured, never the state, so of what a    *)
(* render reads the model keeps what decides a later step: isInitialLoading *)
(* (a dependency of the effect, and captured by the closures) and whether  *)
(* the error Alert is on screen.                                           *)
(*                                                                         *)
(* The model follows one component instance from its first render to its   *)
(* unmount.  A page opened again is a new instance with its own hooks and  *)
(* refs, which requests of the old instance cannot reach.  While mounted   *)
(* the route moves on to a job the instance has not shown before.          *)
(***************************************************************************)
EXTENDS Integers, Sequences, FiniteSets, TLC

(***************************************************************************)
(* JavaScript values                                                       *)
(***************************************************************************)
Null == "null"
Undefined == "undefined"
NullObject == [null |-> TRUE]

\* JavaScript truthiness of a string-or-null value (if (x), x || y).
Truthy(v) == v \notin {Null, Undefined, ""}

\* JavaScript a ?? b: b only when a is null or undefined.
Coalesce(a, b) == IF a \in {Null, Undefined} THEN b ELSE a

\* JavaScript truthiness of an object-or-null value.
TruthyObject(o) == o # NullObject

(***************************************************************************)
(* Bounds of the model                                                     *)
(***************************************************************************)
MaxInFlight == 2
MaxTimers == 2

\* The jobs the route shows, in the order it visits them.
JobOrder == <<"A", "B">>
JobIds == {JobOrder[k] : k \in DOMAIN JobOrder}
NextJob(j) == {JobOrder[k + 1] : k \in {n \in 1..(Len(JobOrder) - 1) : JobOrder[n] = j}}
TimerIds == 1..MaxTimers

(***************************************************************************)
(* types.ts                                                                *)
(***************************************************************************)
AssessmentStatus == {"pending", "in_progress", "complete", "failed", "not_found"}

\* A status string the backend may send that is not in AssessmentStatus.
UnrecognizedStatus == "archived"

\* The status field of a body that carries no status string: empty, null or
\* missing (response.data.status is then undefined).
FalsyStatuses == {"", Null, Undefined}

TerminalStatuses == {"complete", "failed", "not_found"}

EmptyResults == [k \in {} |-> NullObject]

\* SideAssessment values used as backend payloads.
SidePlain == [pickup_image |-> "p.jpg", return_image |-> "r.jpg",
              annotated_return_image |-> Undefined]
SideAnnotated == [pickup_image |-> "p.jpg", return_image |-> "r.jpg",
                  annotated_return_image |-> "a.jpg"]

\* AssessmentResponse.results values the backend answers with: null, {},
\* one known side, and an unknown side next to a side whose entry is null.
ResultsNone == NullObject
ResultsFront == [k \in {"front"} |-> SidePlain]
ResultsRoof == [k \in {"front", "roof"} |-> IF k = "roof" THEN SideAnnotated ELSE NullObject]

\* The results and summary fields of the response bodies the backend answers with.
Payloads ==
    { [results |-> ResultsNone, summary |-> Null],
      [results |-> ResultsNone, summary |-> "ok"],
      [results |-> EmptyResults, summary |-> ""],
      [results |-> ResultsFront, summary |-> Null],
      [results |-> ResultsRoof, summary |-> "ok"] }

\* 2xx responses: AssessmentResponse (the fields the page reads).  A body
\* with a status string carries any of the payloads; one without comes with
\* no results and no summary.
OkResponses ==
    { [status |-> s, results |-> p.results, summary |-> p.summary] :
        s \in AssessmentStatus \cup {UnrecognizedStatus}, p \in Payloads }
    \cup { [status |-> s, results |-> ResultsNone, summary |-> Null] :
             s \in FalsyStatuses }

\* Rejections of axios.get.  httpStatus 0 stands for "no response".
Err404 == [isAxios |-> TRUE, httpStatus |-> 404, detail |-> Undefined,
           dataMessage |-> Undefined, message |-> "Request failed with status code 404"]
Err500Detail == [isAxios |-> TRUE, httpStatus |-> 500, detail |-> "boom",
                 dataMessage |-> "ignored", message |-> "Request failed with status code 500"]
ErrPlain == [isAxios |-> FALSE, httpStatus |-> 0, detail |-> Undefined,
             dataMessage |-> Undefined, message |-> Undefined]

ErrorResponses == {Err404, Err500Detail, ErrPlain}

DefaultAxiosMessage ==
    "Unable to contact the assessment service. Please check your connection."
DefaultUnexpectedMessage ==
    "An unexpected error occurred while fetching assessment status."

(***************************************************************************)
(* State                                                                   *)
(***************************************************************************)
VARIABLES
    uploadId,          \* useParams().uploadId of the current render
    status,            \* useState<AssessmentStatus | null>(null)
    results,           \* useState<ResultsState>({})
    summary,           \* useState<string | null>(null)
    isPolling,         \* useState(false)
    error,             \* useState<string | null>(null)
    isInitialLoading,  \* useState(true)
    lastStatusRef,     \* useRef<AssessmentStatus | null>(null)
    pollTimerRef,      \* useRef<number | null>(null); 0 is null
    isMountedRef,      \* useRef(true)
    renderedIsInitialLoading, \* isInitialLoading as the last render read it
    alertRendered,     \* the last render put {error && <Alert>} on screen
    effectDeps,        \* uploadId and isInitialLoading of the render whose effect ran last
    timers,            \* intervals armed in the browser, with the closure each one calls
    inflight,          \* axios.get calls awaiting their response, oldest first
    phase,             \* "constructed" (rendered, effect not yet run), "mounted", "unmounted"
    last               \* the event handled by the last step, with its input

vars == <<uploadId, status, results, summary, isPolling, error, isInitialLoading,
          lastStatusRef, pollTimerRef, isMountedRef, renderedIsInitialLoading,
          alertRendered, effectDeps, timers, inflight, phase, last>>

\* What React holds of the last render and the last effect run.
rendering == <<renderedIsInitialLoading, alertRendered, effectDeps>>

\* What the page shows for the job.
snapshot == <<status, results, summary, error>>

\* The component instance as one record, so that handlers compose.
Cur ==
    [uploadId |-> uploadId, status |-> status, results |-> results,
     summary |-> summary, isPolling |-> isPolling, error |-> error,
     isInitialLoading |-> isInitialLoading, lastStatusRef |-> lastStatusRef,
     pollTimerRef |-> pollTimerRef, isMountedRef |-> isMountedRef,
     timers |-> timers]

Commit(c) ==
    /\ uploadId' = c.uploadId
    /\ status' = c.status
    /\ results' = c.results
    /\ summary' = c.summary
    /\ isPolling' = c.isPolling
    /\ error' = c.error
    /\ isInitialLoading' = c.isInitialLoading
    /\ lastStatusRef' = c.lastStatusRef
    /\ pollTimerRef' = c.pollTimerRef
    /\ isMountedRef' = c.isMountedRef
    /\ timers' = c.timers

\* State of a freshly constructed component for job j (the useState / useRef initial values).
Constructed(j) ==
    [uploadId |-> j, status |-> Null, results |-> EmptyResults,
     summary |-> Null, isPolling |-> FALSE, error |-> Null,
     isInitialLoading |-> TRUE, lastStatusRef |-> Null,
     pollTimerRef |-> 0, isMountedRef |-> TRUE, timers |-> {}]

(***************************************************************************)
(* normalizeResults                                                        *)
(***************************************************************************)
\* The keys normalized[side] = ... stores as own properties of the object
\* literal {}: every key but "__proto__", whose assignment runs the setter of
\* Object.prototype and replaces the prototype instead.
OwnKeysWritten(keys) == keys \ {"__proto__"}

\* Variant: annotated_return_image || return_image.
normalizeResultsOr(raw) ==
    IF ~TruthyObject(raw) THEN EmptyResults
    ELSE [side \in OwnKeysWritten({k \in DOMAIN raw : TruthyObject(raw[k])}) |->
            [pickupUrl |-> raw[side].pickup_image,
             resultUrl |-> IF Truthy(raw[side].annotated_return_image)
                           THEN raw[side].annotated_return_image
                           ELSE raw[side].return_image]]

normalizeResults(raw) ==
    IF ~TruthyObject(raw) THEN EmptyResults
    ELSE [side \in OwnKeysWritten({k \in DOMAIN raw : TruthyObject(raw[k])}) |->
            [pickupUrl |-> raw[side].pickup_image,
             resultUrl |-> Coalesce(raw[side].annotated_return_image,
                                    raw[side].return_image)]]

(***************************************************************************)
(* shouldContinuePolling                                                   *)
(***************************************************************************)
\* Variant: polling continues only for the statuses known to be in progress.
shouldContinuePollingKnown(currentStatus) ==
    IF ~Truthy(currentStatus) THEN TRUE
    ELSE currentStatus \in {"pending", "in_progress"}

shouldContinuePolling(currentStatus) ==
    IF ~Truthy(currentStatus) THEN TRUE
    ELSE currentStatus \notin {"complete", "failed", "not_found"}

(***************************************************************************)
(* startPolling / stopPolling                                              *)
(***************************************************************************)
\* clearInterval(pollTimerRef.current); pollTimerRef.current = null
ClearPollTimer(c) ==
    IF c.pollTimerRef # 0
    THEN [c EXCEPT !.timers = {t \in @ : t.id # c.pollTimerRef}, !.pollTimerRef = 0]
    ELSE c

\* window.setInterval: a handle not in use.
FreshTimerId(c) == CHOOSE id \in TimerIds : \A t \in c.timers : t.id # id

\* Variant: startPolling without the "already polling" guard; the handle of the
\* interval armed before is overwritten.
startPollingUnguarded(c) ==
    LET id == FreshTimerId(c) IN
    [c EXCEPT !.isPolling = TRUE,
              !.pollTimerRef = id,
              !.timers = @ \cup {[id |-> id, job |-> c.uploadId,
                                  init |-> c.isInitialLoading]}]

\* The interval calls the fetchAssessmentStatus of the render that armed it:
\* that closure holds that render's uploadId and isInitialLoading.
startPolling(c) ==
    IF c.pollTimerRef # 0 THEN c
    ELSE LET id == FreshTimerId(c) IN
         [c EXCEPT !.isPolling = TRUE,
                   !.pollTimerRef = id,
                   !.timers = @ \cup {[id |-> id, job |-> c.uploadId,
                                       init |-> c.isInitialLoading]}]

\* Variant: stopPolling when the status is terminal only resets the flag.
stopPollingLazy(c) ==
    IF c.status \in {"complete", "failed", "not_found"}
    THEN [c EXCEPT !.isPolling = FALSE]
    ELSE ClearPollTimer([c EXCEPT !.isPolling = FALSE])

stopPolling(c) == ClearPollTimer([c EXCEPT !.isPolling = FALSE])

(***************************************************************************)
(* useEffect(..., [uploadId, startPolling, stopPolling])                   *)
(***************************************************************************)
EffectRun(c) == startPolling([c EXCEPT !.isMountedRef = TRUE])

EffectCleanup(c) == stopPolling([c EXCEPT !.isMountedRef = FALSE])

(***************************************************************************)
(* fetchAssessmentStatus                                                   *)
(***************************************************************************)
\* The try-block as FetchResolved below, shared by its variants.
ResolvedWith(c, r, resp, commit) ==
    LET c1 == IF commit
              THEN [c EXCEPT
                      !.status = resp.status,
                      !.lastStatusRef = resp.status,
                      !.results = IF TruthyObject(resp.results)
                                  THEN normalizeResults(resp.results) ELSE @,
                      !.summary = IF Truthy(resp.summary) THEN resp.summary ELSE @,
                      !.error = Null]
              ELSE c
        c2 == IF r.init THEN [c1 EXCEPT !.isInitialLoading = FALSE] ELSE c1
    IN  IF ~shouldContinuePolling(resp.status)
        THEN ClearPollTimer([c2 EXCEPT !.isPolling = FALSE])
        ELSE c2

\* Variant: the continuation does not look at isMountedRef.
FetchResolvedUnguarded(c, r, resp) ==
    ResolvedWith(c, r, resp, resp.status # c.lastStatusRef \/ r.init)

\* Variant: every successful fetch writes the state, changed status or not.
FetchResolvedAlways(c, r, resp) ==
    IF ~c.isMountedRef THEN c ELSE ResolvedWith(c, r, resp, TRUE)

\* Variant: a committing fetch sets the status state and leaves lastStatusRef.
FetchResolvedNoRef(c, r, resp) ==
    IF ~c.isMountedRef THEN c
    ELSE LET c1 == IF resp.status # c.lastStatusRef \/ r.init
                   THEN [c EXCEPT
                           !.status = resp.status,
                           !.results = IF TruthyObject(resp.results)
                                       THEN normalizeResults(resp.results) ELSE @,
                           !.summary = IF Truthy(resp.summary) THEN resp.summary ELSE @,
                           !.error = Null]
                   ELSE c
             c2 == IF r.init THEN [c1 EXCEPT !.isInitialLoading = FALSE] ELSE c1
         IN  IF ~shouldContinuePolling(resp.status)
             THEN ClearPollTimer([c2 EXCEPT !.isPolling = FALSE])
             ELSE c2

\* Variant: the first-load test reads the flag as it is when the response
\* arrives, not as the closure captured it.
FetchResolvedCurrentFlag(c, r, resp) ==
    IF ~c.isMountedRef THEN c
    ELSE LET c1 == IF resp.status # c.lastStatusRef \/ c.isInitialLoading
                   THEN [c EXCEPT
                           !.status = resp.status,
                           !.lastStatusRef = resp.status,
                           !.results = IF TruthyObject(resp.results)
                                       THEN normalizeResults(resp.results) ELSE @,
                           !.summary = IF Truthy(resp.summary) THEN resp.summary ELSE @,
                           !.error = Null]
                   ELSE c
             c2 == IF c.isInitialLoading THEN [c1 EXCEPT !.isInitialLoading = FALSE] ELSE c1
         IN  IF ~shouldContinuePolling(resp.status)
             THEN ClearPollTimer([c2 EXCEPT !.isPolling = FALSE])
             ELSE c2

\* try-block after the await.
FetchResolved(c, r, resp) ==
    IF ~c.isMountedRef THEN c
    ELSE LET c1 == IF resp.status # c.lastStatusRef \/ r.init
                   THEN [c EXCEPT
                           !.status = resp.status,
                           !.lastStatusRef = resp.status,
                           !.results = IF TruthyObject(resp.results)
                                       THEN normalizeResults(resp.results) ELSE @,
                           !.summary = IF Truthy(resp.summary) THEN resp.summary ELSE @,
                           !.error = Null]
                   ELSE c
             c2 == IF r.init THEN [c1 EXCEPT !.isInitialLoading = FALSE] ELSE c1
         IN  IF ~shouldContinuePolling(resp.status)
             THEN ClearPollTimer([c2 EXCEPT !.isPolling = FALSE])
             ELSE c2

\* e.response?.data?.detail || e.response?.data?.message || e.message || default
AxiosErrorMessage(e) ==
    IF Truthy(e.detail) THEN e.detail
    ELSE IF Truthy(e.dataMessage) THEN e.dataMessage
    ELSE IF Truthy(e.message) THEN e.message
    ELSE DefaultAxiosMessage

ErrorMessage(e) ==
    IF e.isAxios THEN AxiosErrorMessage(e)
    ELSE Coalesce(e.message, DefaultUnexpectedMessage)

\* axios.isAxiosError(e) && e.response?.status === 404
IsNotFound(e) == e.isAxios /\ e.httpStatus = 404

\* Variant: a failure that is not a 404 is shown as status "failed".
FetchRejectedFails(c, r, e) ==
    IF ~c.isMountedRef THEN c
    ELSE IF IsNotFound(e)
    THEN LET c1 == ClearPollTimer([c EXCEPT !.status = "not_found",
                                            !.lastStatusRef = "not_found",
                                            !.isPolling = FALSE])
         IN  IF r.init THEN [c1 EXCEPT !.isInitialLoading = FALSE] ELSE c1
    ELSE LET c1 == [c EXCEPT !.error = ErrorMessage(e), !.status = "failed",
                             !.lastStatusRef = "failed"]
         IN  IF r.init THEN [c1 EXCEPT !.isInitialLoading = FALSE] ELSE c1

\* Variant: a 404 empties what the page shows of the job.
FetchRejectedClears(c, r, e) ==
    IF ~c.isMountedRef THEN c
    ELSE IF IsNotFound(e)
    THEN LET c1 == ClearPollTimer([c EXCEPT !.status = "not_found",
                                            !.lastStatusRef = "not_found",
                                            !.results = EmptyResults,
                                            !.summary = Null,
                                            !.isPolling = FALSE])
         IN  IF r.init THEN [c1 EXCEPT !.isInitialLoading = FALSE] ELSE c1
    ELSE LET c1 == [c EXCEPT !.error = ErrorMessage(e)]
         IN  IF r.init THEN [c1 EXCEPT !.isInitialLoading = FALSE] ELSE c1

\* Variant: a failure that is not a 404 gives up polling.
FetchRejectedStops(c, r, e) ==
    IF ~c.isMountedRef THEN c
    ELSE IF IsNotFound(e)
    THEN LET c1 == ClearPollTimer([c EXCEPT !.status = "not_found",
                                            !.lastStatusRef = "not_found",
                                            !.isPolling = FALSE])
         IN  IF r.init THEN [c1 EXCEPT !.isInitialLoading = FALSE] ELSE c1
    ELSE LET c1 == ClearPollTimer([c EXCEPT !.error = ErrorMessage(e),
                                            !.isPolling = FALSE])
         IN  IF r.init THEN [c1 EXCEPT !.isInitialLoading = FALSE] ELSE c1

\* Variant: the 404 branch clears the interval and leaves isPolling as it is.
FetchRejectedKeepsFlag(c, r, e) ==
    IF ~c.isMountedRef THEN c
    ELSE IF IsNotFound(e)
    THEN LET c1 == ClearPollTimer([c EXCEPT !.status = "not_found",
                                            !.lastStatusRef = "not_found"])
         IN  IF r.init THEN [c1 EXCEPT !.isInitialLoading = FALSE] ELSE c1
    ELSE LET c1 == [c EXCEPT !.error = ErrorMessage(e)]
         IN  IF r.init THEN [c1 EXCEPT !.isInitialLoading = FALSE] ELSE c1

\* catch-block.
FetchRejected(c, r, e) ==
    IF ~c.isMountedRef THEN c
    ELSE IF IsNotFound(e)
    THEN LET c1 == ClearPollTimer([c EXCEPT !.status = "not_found",
                                            !.lastStatusRef = "not_found",
                                            !.isPolling = FALSE])
         IN  IF r.init THEN [c1 EXCEPT !.isInitialLoading = FALSE] ELSE c1
    ELSE LET c1 == [c EXCEPT !.error = ErrorMessage(e)]
         IN  IF r.init THEN [c1 EXCEPT !.isInitialLoading = FALSE] ELSE c1

(***************************************************************************)
(* renderStatusContent: which content the page shows for the status        *)
(***************************************************************************)
renderStatusContent(c) ==
    IF c.isInitialLoading THEN "loading"
    ELSE IF ~Truthy(c.status) THEN "unable_to_load"
    ELSE CASE c.status = "pending" -> "pending"
           [] c.status = "in_progress" -> "in_progress"
           [] c.status = "complete" -> "complete"
           [] c.status = "failed" -> "failed"
           [] c.status = "not_found" -> "not_found"
           [] OTHER -> "unknown_status"

RemoveAt(s, i) == SubSeq(s, 1, i - 1) \o SubSeq(s, i + 1, Len(s))

(***************************************************************************)
(* Steps                                                                   *)
(***************************************************************************)
\* The variables hold the component record c.
Holds(c) ==
    /\ uploadId = c.uploadId
    /\ status = c.status
    /\ results = c.results
    /\ summary = c.summary
    /\ isPolling = c.isPolling
    /\ error = c.error
    /\ isInitialLoading = c.isInitialLoading
    /\ lastStatusRef = c.lastStatusRef
    /\ pollTimerRef = c.pollTimerRef
    /\ isMountedRef = c.isMountedRef
    /\ timers = c.timers

\* First render of the page for job "A": hooks hold their initial values.
Init ==
    /\ Holds(Constructed("A"))
    /\ renderedIsInitialLoading = TRUE
    /\ alertRendered = FALSE
    /\ effectDeps = [uploadId |-> "A", isInitialLoading |-> TRUE]
    /\ inflight = <<>>
    /\ phase = "constructed"
    /\ last = [op |-> "construct"]

\* The mount effect runs after the first render.
Mount ==
    /\ phase = "constructed"
    /\ Commit(EffectRun(Cur))
    /\ phase' = "mounted"
    /\ last' = [op |-> "mount"]
    /\ UNCHANGED <<inflight, rendering>>

\* The interval of timer t fires: await fetchAssessmentStatus() of its closure,
\* which issues axios.get for the closure's uploadId.
Tick(t) ==
    /\ t \in timers
    /\ Truthy(t.job)
    /\ Len(inflight) < MaxInFlight
    /\ inflight' = Append(inflight, [job |-> t.job, init |-> t.init])
    /\ last' = [op |-> "tick", req |-> [job |-> t.job, init |-> t.init]]
    /\ UNCHANGED <<uploadId, status, results, summary, isPolling, error,
                   isInitialLoading, lastStatusRef, pollTimerRef, isMountedRef,
                   rendering, timers, phase>>

\* The record of a settled request: the continuation of request r ran with
\* outcome out.  A continuation that returns at the isMountedRef check has read
\* nothing of the outcome.
Handled(op, r, out) ==
    IF isMountedRef THEN [op |-> op, req |-> r, out |-> out]
    ELSE [op |-> op, req |-> r]

\* The response of request i arrives with a 2xx status and body resp: the
\* continuation runs and returns; the render it asks for comes later.
DeliverOk(i, resp) ==
    /\ i \in 1..Len(inflight)
    /\ Commit(FetchResolved(Cur, inflight[i], resp))
    /\ inflight' = RemoveAt(inflight, i)
    /\ last' = Handled("ok", inflight[i], resp)
    /\ UNCHANGED <<phase, rendering>>

\* Request i is rejected with e.
DeliverError(i, e) ==
    /\ i \in 1..Len(inflight)
    /\ Commit(FetchRejected(Cur, inflight[i], e))
    /\ inflight' = RemoveAt(inflight, i)
    /\ last' = Handled(IF IsNotFound(e) THEN "404" ELSE "error", inflight[i], e)
    /\ UNCHANGED <<phase, rendering>>

\* The component as the last render read it.
Rendered == [Cur EXCEPT !.isInitialLoading = renderedIsInitialLoading]

\* The dependency values of the last render: startPolling is a new callback
\* when uploadId or isInitialLoading changed (through fetchAssessmentStatus).
RenderedDeps == [uploadId |-> uploadId, isInitialLoading |-> renderedIsInitialLoading]

\* The last render changed a dependency of the effect, which has not run since.
EffectsDue == effectDeps # RenderedDeps

\* React renders the updates queued by the continuations.  It runs the effects
\* still due from the render before first (RunEffects), so it renders only
\* when none is due.
Rerender ==
    /\ phase = "mounted"
    /\ ~EffectsDue
    /\ \/ isInitialLoading # renderedIsInitialLoading
       \/ alertRendered # Truthy(error)
    /\ renderedIsInitialLoading' = isInitialLoading
    /\ alertRendered' = Truthy(error)
    /\ last' = [op |-> "render", after |-> last.op]
    /\ UNCHANGED <<uploadId, status, results, summary, isPolling, error,
                   isInitialLoading, lastStatusRef, pollTimerRef, isMountedRef,
                   effectDeps, timers, inflight, phase>>

\* React runs the effect of the last render, if one is due: cleanup of the
\* effect before, then the body, with the callbacks of that render (its
\* uploadId, its isInitialLoading).  RunEffects is the flush on its own; last
\* records the job the cleaned-up effect ran for.
Flushed ==
    IF EffectsDue
    THEN [EffectRun(EffectCleanup(Rendered)) EXCEPT !.isInitialLoading = isInitialLoading]
    ELSE Cur

RunEffects ==
    /\ phase = "mounted"
    /\ EffectsDue
    /\ Commit(Flushed)
    /\ effectDeps' = RenderedDeps
    /\ last' = [op |-> "effect", job |-> effectDeps.uploadId]
    /\ UNCHANGED <<renderedIsInitialLoading, alertRendered, inflight, phase>>

\* The route parameter changes to the next job while the page stays mounted:
\* the component renders with the new uploadId and its hook state is kept;
\* the effect is due.
SwitchJob(j) ==
    /\ phase = "mounted"
    /\ ~EffectsDue
    /\ j \in NextJob(uploadId)
    /\ uploadId' = j
    /\ renderedIsInitialLoading' = isInitialLoading
    /\ alertRendered' = Truthy(error)
    /\ last' = [op |-> "switch"]
    /\ UNCHANGED <<status, results, summary, isPolling, error,
                   isInitialLoading, lastStatusRef, pollTimerRef, isMountedRef,
                   effectDeps, timers, inflight, phase>>

\* The page is left (handleBackToMain): the effect cleanup runs and nothing of
\* the page stays on screen.
Unmount ==
    /\ phase = "mounted"
    /\ Commit(EffectCleanup(Cur))
    /\ phase' = "unmounted"
    /\ alertRendered' = FALSE
    /\ last' = [op |-> "unmount"]
    /\ UNCHANGED <<inflight, renderedIsInitialLoading, effectDeps>>

\* {error && <Alert onClose={() => setError(null)}>}: the Alert on screen is
\* closed.  React renders the update of a click before the click returns, and
\* before that render it runs the effect still due from the render before.
DismissError ==
    /\ phase = "mounted"
    /\ alertRendered
    /\ Commit([Flushed EXCEPT !.error = Null])
    /\ effectDeps' = RenderedDeps
    /\ alertRendered' = FALSE
    /\ last' = [op |-> "dismiss"]
    /\ UNCHANGED <<renderedIsInitialLoading, inflight, phase>>

Next ==
    \/ Mount
    \/ \E t \in timers : Tick(t)
    \/ \E i \in 1..Len(inflight), resp \in OkResponses : DeliverOk(i, resp)
    \/ \E i \in 1..Len(inflight), e \in ErrorResponses : DeliverError(i, e)
    \/ Rerender
    \/ RunEffects
    \/ \E j \in JobIds : SwitchJob(j)
    \/ Unmount
    \/ DismissError

Spec == Init /\ [][Next]_vars

(***************************************************************************)
(* normalizeResults on arbitrary result maps                               *)
(*                                                                         *)
(* The page is mounted and its first request is in flight; the response    *)
(* carries any result map the JSON body can hold: null, or a map over a    *)
(* known side ("front") and sides the Side type does not list ("roof",     *)
(* and "__proto__", which JSON.parse stores as an own key), each entry     *)
(* null or a SideAssessment with any of its image references missing, and  *)
(* the annotated one also null or empty.                                   *)
(***************************************************************************)
RawSideKeys == {"front", "roof", "__proto__"}

RawSideAssessments ==
    [pickup_image : {"p.jpg", Undefined},
     return_image : {"r.jpg", Undefined},
     annotated_return_image : {"a.jpg", "", Null, Undefined}]

RawResults ==
    {NullObject} \cup
    UNION { [keys -> RawSideAssessments \cup {NullObject}] : keys \in SUBSET RawSideKeys }

FirstRequest == [job |-> "A", init |-> TRUE]

NormInit ==
    /\ Holds(EffectRun(Constructed("A")))
    /\ renderedIsInitialLoading = TRUE
    /\ alertRendered = FALSE
    /\ effectDeps = [uploadId |-> "A", isInitialLoading |-> TRUE]
    /\ inflight = <<FirstRequest>>
    /\ phase = "mounted"
    /\ last = [op |-> "tick", req |-> FirstRequest]

NormNext ==
    \E raw \in RawResults :
        DeliverOk(1, [status |-> "complete", results |-> raw, summary |-> Null])

SpecNorm == NormInit /\ [][NormNext]_vars

(***************************************************************************)
(* Scheduling                                                              *)
(*                                                                         *)
(* The browser runs the mount effect after the first render, React renders *)
(* the updates it has queued and runs the effects that are due, an armed   *)
(* interval keeps firing, and every                                        *)
(* axios.get settles (response, error or timeout): none of these can stay  *)
(* possible forever without happening.                                     *)
(***************************************************************************)
TickSome == \E t \in timers : Tick(t)

Settle ==
    \/ \E i \in 1..Len(inflight), resp \in OkResponses : DeliverOk(i, resp)
    \/ \E i \in 1..Len(inflight), e \in ErrorResponses : DeliverError(i, e)

SpecLive ==
    /\ Init
    /\ [][Next]_vars
    /\ WF_vars(Mount)
    /\ WF_vars(Rerender)
    /\ WF_vars(RunEffects)
    /\ WF_vars(TickSome)
    /\ WF_vars(Settle)

(***************************************************************************)
(* Shared vocabulary of the properties                                     *)
(***************************************************************************)
Deliveries == {"ok", "404", "error"}

\* The step stays inside one polling session: same page, same job.
SameSession == phase = "mounted" /\ phase' = "mounted" /\ uploadId' = uploadId

\* Request i is delivered by the step.
DeliveredAt(i) ==
    /\ last'.op \in Deliveries
    /\ inflight[i] = last'.req
    /\ inflight' = RemoveAt(inflight, i)

\* Request i is stale: a newer request for the same job is in flight, or its
\* session is over (page left, job switched, timer disarmed).
Superseded(i) ==
    \/ \E k \in (i + 1)..Len(inflight) : inflight[k].job = inflight[i].job
    \/ ~isMountedRef
    \/ inflight[i].job # uploadId
    \/ pollTimerRef = 0

(***************************************************************************)
(* Properties                                                              *)
(***************************************************************************)

\* C1: terminal statuses are absorbing: once the displayed status is complete,
\* failed or not_found, no later event of the same session changes it.
C1_TerminalAbsorbing ==
    [][(SameSession /\ status \in TerminalStatuses) => status' = status]_vars

\* C2: once the status is terminal, the timer is disarmed and stays disarmed in
\* that session, and no status request is issued.
C2_NoCycleAfterTerminal ==
    [][(SameSession /\ status \in TerminalStatuses)
         => (pollTimerRef' = 0 /\ timers' = {} /\ last'.op # "tick")]_vars

\* C3: a response delivered after a newer fetch of the same session was
\* dispatched, or after the session was stopped, changes none of status,
\* results, summary and error.
C3_StaleResponseIgnored ==
    [][\A i \in 1..Len(inflight) :
          (DeliveredAt(i) /\ Superseded(i)) => UNCHANGED snapshot]_vars

\* C4: after the page is unmounted, a fetch that was in flight and resolves
\* later, with a response or with any error, changes none of status, results,
\* summary, error, isPolling, isInitialLoading and the timer.
C4_NoMutationAfterUnmount ==
    [][(phase = "unmounted" /\ last'.op \in Deliveries)
         => UNCHANGED <<status, results, summary, error, isPolling,
                        isInitialLoading, lastStatusRef, pollTimerRef, timers>>]_vars

\* C4 witness: the response to the first request of the page arrived after the
\* unmount, and the page state still holds its initial values.
C4_Witness ==
    /\ phase = "unmounted"
    /\ last.op = "ok"
    /\ last.req.init
    /\ status = Null
    /\ isInitialLoading

\* C5: a switch to another job disarms the previous job's timer (when the
\* effect of the route change has run, every armed interval polls the new
\* job), and a response to a request issued for the previous job changes
\* nothing of the snapshot shown for the new job.
C5_SwitchSuppressesOldJob ==
    [][/\ last'.op = "effect" => \A t \in timers' : t.job = uploadId'
       /\ (last'.op \in Deliveries /\ last'.req.job # uploadId)
            => UNCHANGED snapshot]_vars

\* C6: starting a session for a new job resets the snapshot: when the effect
\* of a route change has started the new job's polling, status is unknown,
\* results empty, summary and error absent, first-fetch flag set.
C6_NewJobResets ==
    (last.op = "effect" /\ last.job # uploadId)
      => /\ status = Null
         /\ results = EmptyResults
         /\ summary = Null
         /\ error = Null
         /\ isInitialLoading

\* C7: a 404 processed while mounted sets status to not_found whatever it was,
\* and halts scheduling: the timer is disarmed and isPolling false, and what
\* follows the 404 in the session (the render it asked for and the effects of
\* that render included) leaves them so and issues no request.
C7_NotFoundHalts ==
    [][/\ (last'.op = "404" /\ isMountedRef)
            => /\ status' = "not_found"
               /\ pollTimerRef' = 0
               /\ timers' = {}
               /\ ~isPolling'
       /\ (SameSession /\ (\/ last.op = "404"
                            \/ (last.op = "render" /\ last.after = "404")))
            => /\ pollTimerRef' = 0
               /\ timers' = {}
               /\ ~isPolling'
               /\ last'.op # "tick"]_vars

\* C8: a fetch failure that is not a 404, processed while mounted, leaves status
\* and lastStatusRef as they were and sets error to the failure's message, from
\* every prior status.
C8_ErrorKeepsStatus ==
    [][(last'.op = "error" /\ isMountedRef)
         => /\ status' = status
            /\ lastStatusRef' = lastStatusRef
            /\ error' = ErrorMessage(last'.out)]_vars

\* C8 witness: a non-404 failure was processed on a page that shows a terminal
\* status, and the page shows the failure's message.
C8_Witness ==
    /\ phase = "mounted"
    /\ last.op = "error"
    /\ status \in TerminalStatuses
    /\ error = ErrorMessage(last.out)

\* C9: every successful fetch processed while mounted clears error.
C9_OkClearsError ==
    [][(last'.op = "ok" /\ isMountedRef) => error' = Null]_vars

\* A results payload with at least one side.
NonEmptyResults(raw) == TruthyObject(raw) /\ DOMAIN raw # {}

\* Every side of b is in a with b's value.
Includes(a, b) == \A k \in DOMAIN b : k \in DOMAIN a /\ a[k] = b[k]

\* C10 as stated: on a successful fetch, non-empty results are normalized and
\* end up in results, and a non-empty summary is stored, whether or not the
\* fetched status differs from the current one.
C10_AlwaysMerged ==
    [][(last'.op = "ok" /\ isMountedRef)
         => /\ NonEmptyResults(last'.out.results)
                 => Includes(results', normalizeResults(last'.out.results))
            /\ Truthy(last'.out.summary) => summary' = last'.out.summary]_vars

\* C10 amended: a successful fetch processed while mounted writes results and
\* summary only if its status differs from lastStatusRef or its closure is a
\* first load; then non-null results are normalized and replace results, and a
\* non-empty summary is stored.  Otherwise results and summary stay.
C10_WrittenOnCommit ==
    [][(last'.op = "ok" /\ isMountedRef)
         => IF last'.out.status # lastStatusRef \/ last'.req.init
            THEN /\ results' = IF TruthyObject(last'.out.results)
                               THEN normalizeResults(last'.out.results) ELSE results
                 /\ summary' = IF Truthy(last'.out.summary)
                               THEN last'.out.summary ELSE summary
            ELSE UNCHANGED <<results, summary>>]_vars

\* C10 witness: a successful fetch that was not a first load and carried the
\* status already shown, a side and a summary was processed, and the page
\* shows neither the side nor the summary.
C10_Witness ==
    /\ phase = "mounted"
    /\ last.op = "ok"
    /\ ~last.req.init
    /\ last.out.status = status
    /\ NonEmptyResults(last.out.results)
    /\ Truthy(last.out.summary)
    /\ results = EmptyResults
    /\ summary = Null

\* The fetch outcome handled by the step supplies a value for side k.
Supplies(k) ==
    /\ last'.op = "ok"
    /\ isMountedRef
    /\ k \in DOMAIN normalizeResults(last'.out.results)

\* C11: within one session no fetch outcome removes a side from
\* results unless it supplies a value for that side, and none makes a populated
\* summary absent.
C11_MonotoneMerge ==
    [][(SameSession /\ last'.op \in Deliveries)
         => /\ \A k \in DOMAIN results : k \in DOMAIN results' \/ Supplies(k)
            /\ Truthy(summary) => Truthy(summary')]_vars

\* C12: no fetch failure, 404 or other, changes results or summary.
C12_FailureKeepsResults ==
    [][(last'.op \in {"404", "error"}) => UNCHANGED <<results, summary>>]_vars

\* C12 witness: a 404 was processed on a page that shows a side and a summary.
C12_Witness ==
    /\ phase = "mounted"
    /\ last.op = "404"
    /\ status = "not_found"
    /\ results # EmptyResults
    /\ summary = "ok"

\* C13: a successful fetch processed while mounted commits only if its status
\* differs from the current status or it is the first fetch of the session
\* (isInitialLoading still set), and the first one always commits; a repeated
\* status after the first fetch changes nothing in the snapshot.
C13_CommitOnlyOnChange ==
    [][(last'.op = "ok" /\ isMountedRef)
         => /\ isInitialLoading => status' = last'.out.status
            /\ (last'.out.status = status /\ ~isInitialLoading)
                 => UNCHANGED snapshot]_vars

\* C14: startPolling issues a status request at once, without waiting for a
\* timer tick, and arms the interval: right after the mount effect a request
\* for the job is in flight and the timer is armed.
C14_StartFetchesImmediately ==
    last.op = "mount"
      => /\ \E i \in 1..Len(inflight) : inflight[i].job = uploadId
         /\ pollTimerRef # 0

\* C15: at most one interval is armed at any time, it is the one pollTimerRef
\* holds, and startPolling called while a timer is armed changes nothing.
C15_SingleTimer ==
    /\ Cardinality(timers) <= 1
    /\ \A t \in timers : t.id = pollTimerRef
    /\ pollTimerRef # 0 => /\ \E t \in timers : t.id = pollTimerRef
                           /\ startPolling(Cur) = Cur

\* C15 witness: the effect of the render after the first response ran
\* (cleanup, then startPolling), and one timer is armed, with the closure of
\* the new render.
C15_Witness ==
    /\ phase = "mounted"
    /\ last.op = "effect"
    /\ status = "pending"
    /\ pollTimerRef # 0
    /\ timers = {[id |-> pollTimerRef, job |-> uploadId, init |-> FALSE]}

\* C16: stopPolling disarms from every state and is idempotent: called in any
\* reachable state it leaves the handle null, no interval armed and isPolling
\* false, and a second call changes nothing; so it is after the unmount.
C16_StopDisarms ==
    LET c == stopPolling(Cur) IN
        /\ c.pollTimerRef = 0
        /\ c.timers = {}
        /\ ~c.isPolling
        /\ stopPolling(c) = c
        /\ last.op = "unmount" => (pollTimerRef = 0 /\ timers = {} /\ ~isPolling)

\* C16 witness: the page was left while it showed a terminal status, and the
\* cleanup left no timer armed.
C16_Witness ==
    /\ last.op = "unmount"
    /\ status \in TerminalStatuses
    /\ ~isInitialLoading
    /\ pollTimerRef = 0
    /\ timers = {}

\* The raw result map of the response handled last, and its normalization.
LastRaw == last.out.results
LastNormalized == normalizeResults(LastRaw)

\* The raw sides that have an entry.
RawEntries(raw) == IF TruthyObject(raw) THEN {k \in DOMAIN raw : TruthyObject(raw[k])} ELSE {}

\* C17 as stated: for every side normalizeResults yields, pickupUrl is the
\* side's pickup_image and resultUrl is its annotated_return_image when that is
\* present and non-empty, otherwise its return_image.
C17_AnnotatedIfNonEmpty ==
    last.op = "ok"
      => \A k \in DOMAIN LastNormalized :
            /\ k \in RawEntries(LastRaw)
            /\ LastNormalized[k].pickupUrl = LastRaw[k].pickup_image
            /\ LastNormalized[k].resultUrl =
                 IF Truthy(LastRaw[k].annotated_return_image)
                 THEN LastRaw[k].annotated_return_image
                 ELSE LastRaw[k].return_image

\* C17 amended: for every side normalizeResults yields, pickupUrl is the side's
\* pickup_image and resultUrl is annotated_return_image whenever that is neither
\* null nor missing, the empty string included, otherwise return_image; and
\* the page shows that normalization.
C17_AnnotatedIfPresent ==
    last.op = "ok"
      => /\ \A k \in DOMAIN LastNormalized :
              /\ k \in RawEntries(LastRaw)
              /\ LastNormalized[k].pickupUrl = LastRaw[k].pickup_image
              /\ LastNormalized[k].resultUrl =
                   IF LastRaw[k].annotated_return_image \notin {Null, Undefined}
                   THEN LastRaw[k].annotated_return_image
                   ELSE LastRaw[k].return_image
         /\ TruthyObject(LastRaw) => results = LastNormalized

\* C17 witness: a side came with an empty annotated reference next to a return
\* reference, and the page shows the empty one.
C17_Witness ==
    /\ last.op = "ok"
    /\ TruthyObject(LastRaw)
    /\ "front" \in RawEntries(LastRaw)
    /\ LastRaw["front"].annotated_return_image = ""
    /\ LastRaw["front"].return_image = "r.jpg"
    /\ results["front"].resultUrl = ""

\* C18: normalizeResults never synthesizes sides: the sides of its output are
\* exactly the raw sides that have an entry, sides outside the Side type
\* included, and a null map gives the empty mapping; the page shows those sides.
C18_KeysPreserved ==
    last.op = "ok"
      => /\ DOMAIN LastNormalized = RawEntries(LastRaw)
         /\ ~TruthyObject(LastRaw) => LastNormalized = EmptyResults
         /\ TruthyObject(LastRaw) => DOMAIN results = RawEntries(LastRaw)

\* C19: a side whose raw entry lacks its pickup or its return reference is left
\* out of the normalized results: no entry shown has an absent pickupUrl or
\* resultUrl.
C19_IncompleteSideOmitted ==
    last.op = "ok"
      => /\ \A k \in DOMAIN LastNormalized :
              /\ LastNormalized[k].pickupUrl # Undefined
              /\ LastNormalized[k].resultUrl # Undefined
         /\ \A k \in DOMAIN results :
              /\ results[k].pickupUrl # Undefined
              /\ results[k].resultUrl # Undefined

\* C20 as stated: a successful fetch processed while mounted whose status is
\* none of the five known ones is committed as that value, the page shows it as
\* an unknown status, and it does not halt polling: an armed timer stays armed.
C20_UnknownStatusSurfaced ==
    [][(last'.op = "ok" /\ isMountedRef /\ last'.out.status \notin AssessmentStatus)
         => /\ status' = last'.out.status
            /\ renderStatusContent(Cur') = "unknown_status"
            /\ pollTimerRef # 0
                 => (pollTimerRef' # 0 /\ timers' # {} /\ isPolling')]_vars

\* C20 amended: a successful fetch processed while mounted whose status is none
\* of the five known ones is committed as that value and does not halt polling
\* (an armed timer stays armed); the page shows it as an unknown status when it
\* is a non-empty string, and as "unable to load" when it is empty, null or
\* missing.
C20_NonEmptyUnknownSurfaced ==
    [][(last'.op = "ok" /\ isMountedRef /\ last'.out.status \notin AssessmentStatus)
         => /\ status' = last'.out.status
            /\ lastStatusRef' = last'.out.status
            /\ renderStatusContent(Cur') = IF Truthy(last'.out.status)
                                           THEN "unknown_status"
                                           ELSE "unable_to_load"
            /\ pollTimerRef # 0
                 => (pollTimerRef' # 0 /\ timers' # {} /\ isPolling')]_vars

\* C20 witness: a poll after the first load answered with an unrecognized
\* status; the page shows it as unknown and the timer is armed.
C20_Witness ==
    /\ phase = "mounted"
    /\ last.op = "ok"
    /\ ~last.req.init
    /\ last.out.status = UnrecognizedStatus
    /\ status = UnrecognizedStatus
    /\ renderStatusContent(Cur) = "unknown_status"
    /\ pollTimerRef # 0
    /\ isPolling

\* C21: a fetch failure that is not a 404 never stops polling: processed while
\* mounted with the timer armed, it leaves the interval pollTimerRef holds
\* armed as it was and isPolling true, and it leaves what decides how a later
\* response is applied (isMountedRef, lastStatusRef) as it was; so it is after
\* any number of consecutive failures.
C21_ErrorKeepsPolling ==
    [][(last'.op = "error" /\ isMountedRef /\ pollTimerRef # 0)
         => /\ pollTimerRef' = pollTimerRef
            /\ timers' = timers
            /\ \E t \in timers' : t.id = pollTimerRef'
            /\ isPolling'
            /\ isMountedRef'
            /\ lastStatusRef' = lastStatusRef]_vars

\* C21 witness: a poll after the first load failed without a 404 while the job
\* was in progress; the page shows the message and the timer is armed.
C21_Witness ==
    /\ phase = "mounted"
    /\ last.op = "error"
    /\ ~last.req.init
    /\ status \in {"pending", "in_progress"}
    /\ error = ErrorMessage(last.out)
    /\ pollTimerRef # 0
    /\ isPolling

\* C22: whenever the page is mounted and the timer is disarmed, the status
\* shown is terminal.
C22_DisarmedOnlyWhenTerminal ==
    (phase = "mounted" /\ pollTimerRef = 0) => status \in TerminalStatuses

\* A step of a page that stays mounted on its job and whose requests are
\* answered with a terminal status or a 404.
TerminalAnswersOnly ==
    /\ phase' = "mounted"
    /\ uploadId' = uploadId
    /\ last'.op \in Deliveries
         => \/ last'.op = "404"
            \/ last'.op = "ok" /\ last'.out.status \in TerminalStatuses

\* The session is over: terminal status shown, no timer, isPolling false.
Halted ==
    /\ status \in TerminalStatuses
    /\ pollTimerRef = 0
    /\ timers = {}
    /\ ~isPolling

\* C23: with timers that keep firing and requests that settle, if from some
\* point on the page stays mounted on one job and every request is answered
\* with a terminal status or a 404, the session eventually is and stays halted.
C23_EventuallyHalted ==
    (<>[](phase = "mounted") /\ <>[][TerminalAnswersOnly]_vars) => <>[]Halted

\* C24: isPolling matches the timer: after every handler isPolling is true
\* exactly when the timer handle is not null, and then exactly that interval
\* is armed.
C24_FlagMatchesTimer ==
    /\ isPolling <=> pollTimerRef # 0
    /\ isPolling <=> timers # {}

\* C24 witness: a poll after the first load got a 404; the timer is disarmed
\* and isPolling is false.
C24_Witness ==
    /\ phase = "mounted"
    /\ last.op = "404"
    /\ ~last.req.init
    /\ pollTimerRef = 0
    /\ ~isPolling

\* C25: lastStatusRef and the status state never diverge.
C25_RefMatchesStatus == lastStatusRef = status

\* C25 witness: a response with a new status was committed after the first
\* load, and both hold it.
C25_Witness ==
    /\ phase = "mounted"
    /\ last.op = "ok"
    /\ ~last.req.init
    /\ last.out.status = "complete"
    /\ status = "complete"
    /\ lastStatusRef = "complete"

\* C26: isInitialLoading never becomes true again once false; it becomes false
\* only by a fetch outcome processed while mounted, and every such outcome
\* leaves it false; a successful fetch whose closure captured the flag as true
\* commits as a first load whatever the flag is by then: status, error and a
\* non-empty summary are written.
C26_InitialLoadingOnce ==
    [][/\ ~isInitialLoading => ~isInitialLoading'
       /\ (isInitialLoading /\ ~isInitialLoading')
            => (last'.op \in Deliveries /\ isMountedRef)
       /\ (last'.op \in Deliveries /\ isMountedRef) => ~isInitialLoading'
       /\ (last'.op = "ok" /\ isMountedRef /\ last'.req.init)
            => /\ status' = last'.out.status
               /\ error' = Null
               /\ Truthy(last'.out.summary) => summary' = last'.out.summary]_vars

\* C26 witness: a response to a request of the first render arrived after the
\* first load was over and rendered, and was committed: its terminal status is
\* shown and it cleared the timer.
C26_Witness ==
    /\ phase = "mounted"
    /\ last.op = "ok"
    /\ last.req.init
    /\ last.out.status \in TerminalStatuses
    /\ status = last.out.status
    /\ summary = last.out.summary
    /\ ~isInitialLoading
    /\ ~renderedIsInitialLoading
    /\ pollTimerRef = 0
====
